---- MODULE Spec2Model ----
(***************************************************************************)
(* Episodic iterated prisoner's dilemma between two LLM agent sessions:    *)
(* EpisodicIPDGame of episodic_ipd_game.py as a state machine.             *)
(* The game runs play_game -> play_episode -> play_round; every backend    *)
(* request of a decision (the forced-decision retry ladder) and of a       *)
(* reflection is one step.  ollama_agent.py, prompts.py and config.py are  *)
(* not part of the sources at hand; what the engine consumes from them    *)
(* (the retry ladder, the decision extractor, the prompt's history window, *)
(* the payoff matrix, the session's context) follows the design document.  *)
(***************************************************************************)
EXTENDS Integers, Sequences, FiniteSets, TLC

\* ------------------------------------------------------------------ bounds
NumEpisodes == 2
RoundsPerEpisode == 3
HistoryWindow == 1
RetryBudget == 2
MaxLoads == 4
MaxGames == 2

\* --------------------------------------------------------------- constants
Agents == {0, 1}
Actions == {"COOPERATE", "DEFECT"}
None == "<None>"
EmptyText == ""
AmbiguousText == "It depends on what the other player does"
FailedToRespond == "Failed to respond after retries"
FailedReflection == "Agent failed to provide reflection"

Other(i) == 1 - i

\* config.payoff_matrix
PayoffMatrix ==
    [p \in Actions \X Actions |->
        CASE p = <<"COOPERATE", "COOPERATE">> -> <<3, 3>>
          [] p = <<"COOPERATE", "DEFECT">>    -> <<0, 5>>
          [] p = <<"DEFECT", "COOPERATE">>    -> <<5, 0>>
          [] p = <<"DEFECT", "DEFECT">>       -> <<1, 1>>]

\* a payoff matrix that pays the two roles differently
AsymmetricMatrix ==
    [p \in Actions \X Actions |->
        CASE p = <<"COOPERATE", "COOPERATE">> -> <<3, 2>>
          [] p = <<"COOPERATE", "DEFECT">>    -> <<0, 5>>
          [] p = <<"DEFECT", "COOPERATE">>    -> <<4, 1>>
          [] p = <<"DEFECT", "DEFECT">>       -> <<1, 2>>]

\* a payoff matrix that lacks the pair (DEFECT, DEFECT)
IncompleteMatrix ==
    [p \in (Actions \X Actions) \ {<<"DEFECT", "DEFECT">>} |-> PayoffMatrix[p]]

\* config.total_rounds
TotalRounds == NumEpisodes * RoundsPerEpisode

\* EpisodeConfig: the counts and the payoff matrix of a configuration
EpisodeConfig(episodes, rounds, matrix) ==
    [num_episodes       |-> episodes,
     rounds_per_episode |-> rounds,
     payoff_matrix      |-> matrix]

StandardConfig == EpisodeConfig(NumEpisodes, RoundsPerEpisode, PayoffMatrix)

AsymmetricConfig == EpisodeConfig(NumEpisodes, RoundsPerEpisode, AsymmetricMatrix)

InvalidConfigs ==
    {EpisodeConfig(0, RoundsPerEpisode, PayoffMatrix),
     EpisodeConfig(NumEpisodes, 0, PayoffMatrix),
     EpisodeConfig(NumEpisodes, RoundsPerEpisode, IncompleteMatrix)}

\* EpisodeConfig.validate: all counts positive, all four pairs covered
validate(cfg) ==
    /\ cfg.num_episodes > 0
    /\ cfg.rounds_per_episode > 0
    /\ Actions \X Actions \subseteq DOMAIN cfg.payoff_matrix

\* ------------------------------------------------ the consumed interfaces
\* the raw text of a backend answer that states the action a
ClearText(a) == IF a = "COOPERATE" THEN "I will COOPERATE" ELSE "I will DEFECT"

\* prompts.extract_decision: raw text -> Action | None
extract_decision(text) ==
    CASE text = "I will COOPERATE" -> "COOPERATE"
      [] text = "I will DEFECT"    -> "DEFECT"
      [] OTHER                     -> None

\* Python truthiness of an optional string
Truthy(text) == text # None /\ text # EmptyText

\* what the backend can answer to a decision request of an agent whose
\* scripted move is a: the clear text, or while it is degraded an unclear
\* text, an empty text or no text at all
BackendResponses(a, degraded) ==
    {ClearText(a)} \cup (IF degraded THEN {AmbiguousText, EmptyText, None} ELSE {})

Min(a, b) == IF a < b THEN a ELSE b

\* prompts.format_round_prompt: the history rounds a prompt shows are the
\* last `window` entries of the history it is given
RecentWindow(history, window) ==
    LET n == Len(history)
        k == Min(window, n)
    IN  [j \in 1..k |-> [index |-> n - k + j - 1, entry |-> history[n - k + j]]]

format_round_prompt(round_num, episode_num, history, my_score, opp_score, window) ==
    [rendered  |-> TRUE,
     round     |-> round_num,
     episode   |-> episode_num,
     shown     |-> RecentWindow(history, window),
     my_score  |-> my_score,
     opp_score |-> opp_score]

NoPrompt ==
    [rendered |-> FALSE, round |-> 0, episode |-> 0, shown |-> << >>,
     my_score |-> 0, opp_score |-> 0]

\* ------------------------------------------------------------------- state
VARIABLES
    config,            \* the EpisodeConfig handed to the engine
    script,            \* the move each agent's backend states in each round
    verbose,           \* config.verbose
    reset_conversation_between_episodes,
    pc,                \* position of the single thread of control
    turn,              \* the agent whose request is being served
    episode_num, round_num,
    total_scores, all_episodes,
    episode_history, episode_scores, round_details,
    prompt, requests, ambiguous,
    decision, action, reasoning,
    reflection,
    results,           \* the GameResult play_game returned
    play_game_calls,   \* the play_game calls made on the engine so far
    calls,             \* log of the completed forced-decision calls
    diagnostics,       \* the CRITICAL diagnostics printed so far
    conversation,      \* each agent session's context
    events,            \* the reflection requests and context operations so far
    outage,            \* the backend's one outage: "none", "now" or "over"
    db_pc,             \* where load_json stands
    db_file,           \* the file load_json was called with
    db_episode,        \* the episodes of the document inserted so far
    db_results_id,     \* the results_id the results insert returned
    db_seq,            \* the last value of the results_id sequence
    db_episode_seq,    \* the last value of the episode_id sequence
    db_tables,         \* the committed rows of the four tables
    db_txn,            \* the connection's transaction and its pending rows
    db_before,         \* the committed rows when load_json was called
    db_history,        \* the load_json calls that have returned or raised
    batch_pc,          \* where load_batch stands
    filepaths,         \* the list load_batch was called with
    batch_queue,       \* the files the loop of load_batch has still to take
    batch_results,     \* the loaded, skipped and failed lists of load_batch
    batch_base         \* the load_json calls made before load_batch was called

engine_vars == <<config, script, verbose, reset_conversation_between_episodes, pc, turn,
                 episode_num, round_num, total_scores, all_episodes,
                 episode_history, episode_scores, round_details,
                 prompt, requests, ambiguous, decision, action, reasoning,
                 reflection, results, play_game_calls, calls, diagnostics,
                 conversation, events, outage>>

batch_vars == <<batch_pc, filepaths, batch_queue, batch_results, batch_base>>

db_vars == <<db_pc, db_file, db_episode, db_results_id, db_seq,
             db_episode_seq, db_tables,
             db_txn, db_before, db_history, batch_vars>>

vars == <<engine_vars, db_vars>>

config_vars == <<config, script, verbose, reset_conversation_between_episodes>>
game_vars == <<total_scores, all_episodes>>
episode_vars == <<episode_history, episode_scores, round_details>>
round_vars == <<prompt, requests, ambiguous, decision, action, reasoning>>

\* ------------------------------------------------------------- arithmetic
RECURSIVE SeqSum(_)
SeqSum(s) == IF s = << >> THEN 0 ELSE Head(s) + SeqSum(Tail(s))

\* Python's true division of two ints, kept exact as a fraction
Divide(a, b) == [num |-> a, den |-> b]

\* ------------------------------------------------------------ round engine
\* _get_agent_decision_with_retry, after generate_with_forced_decision
FallbackActionCooperate == "COOPERATE"

FallbackAction == "DEFECT"

ReturnedActionUnchecked(dec) == dec

ReturnedActionInverted(dec) == IF dec # None THEN FallbackAction ELSE dec

ReturnedAction(dec) == IF dec = None THEN FallbackAction ELSE dec

ReturnedReasoning(dec, response) ==
    IF dec = None
    THEN (IF Truthy(response) THEN response ELSE FailedToRespond)
    ELSE response

\* the CRITICAL lines are printed whatever config.verbose says and whatever
\* the last response was
EmitsCriticalIfVerbose(dec, response, verb) == dec = None /\ verb

EmitsCriticalIfResponse(dec, response, verb) == dec = None /\ Truthy(response)

EmitsCritical(dec, response, verb) == dec = None

\* generate_with_forced_decision: the ladder ends with the n-th response
\* when a decision is extracted from it or the retries are used up
LadderDone(n, response) ==
    extract_decision(response) # None \/ n > RetryBudget

\* play_round: agent 1 is asked after agent 0 has answered, and the payoffs
\* are resolved after agent 1 has answered
AfterDecisionResolveAtOnce(i) == "resolve"

AfterDecision(i) == IF i = 0 THEN "decide" ELSE "resolve"

\* the history and scores play_round hands to the decision of agent i
PromptOfPeeking(i) ==
    format_round_prompt(round_num, episode_num,
                        IF action[Other(i)] = None
                        THEN episode_history[i]
                        ELSE Append(episode_history[i],
                                    [my_action  |-> None,
                                     opp_action |-> action[Other(i)],
                                     my_payoff  |-> 0,
                                     opp_payoff |-> 0]),
                        episode_scores[i], episode_scores[Other(i)],
                        HistoryWindow)

PromptOf(i) ==
    format_round_prompt(round_num, episode_num, episode_history[i],
                        episode_scores[i], episode_scores[Other(i)],
                        HistoryWindow)

\* the payoff lookup of play_round and the unpacking of its result
PayoffKeySwapped(action_0, action_1) == <<action_1, action_0>>

PayoffKey(action_0, action_1) == <<action_0, action_1>>

AgentPayoffSwapped(payoffs, i) == payoffs[2 - i]

AgentPayoff(payoffs, i) == payoffs[i + 1]

\* the round loop of play_episode
MoreRoundsOffByOne(next_round) == next_round + 1 < config.rounds_per_episode

MoreRounds(next_round) == next_round < config.rounds_per_episode

NewEpisodeScoresSwapped(scores, payoff_0, payoff_1) ==
    [scores EXCEPT ![0] = @ + payoff_1, ![1] = @ + payoff_0]

NewEpisodeScores(scores, payoff_0, payoff_1) ==
    [scores EXCEPT ![0] = @ + payoff_0, ![1] = @ + payoff_1]

NewTotalScoresSwapped(scores, payoff_0, payoff_1) ==
    [scores EXCEPT ![0] = @ + payoff_1, ![1] = @ + payoff_0]

NewTotalScores(scores, payoff_0, payoff_1) ==
    [scores EXCEPT ![0] = @ + payoff_0, ![1] = @ + payoff_1]

HistoryEntrySwapped(my_action, opp_action, my_payoff, opp_payoff) ==
    [my_action |-> opp_action, opp_action |-> my_action,
     my_payoff |-> opp_payoff, opp_payoff |-> my_payoff]

HistoryEntry(my_action, opp_action, my_payoff, opp_payoff) ==
    [my_action |-> my_action, opp_action |-> opp_action,
     my_payoff |-> my_payoff, opp_payoff |-> opp_payoff]

\* the episode scores a RoundRecord carries are read after the payoffs of
\* the round were added
RecordedScoresBeforeRound(before, after) == before

RecordedScores(before, after) == after

\* the numbers a RoundRecord and an EpisodeRecord carry are counted from 1
RoundIndexZeroBased(rnd) == rnd

RoundIndex(rnd) == rnd + 1

EpisodeIndexZeroBased(ep) == ep

EpisodeIndex(ep) == ep + 1

RoundData(rnd, acts, reas, payoff_0, payoff_1, scores) ==
    [round                 |-> RoundIndex(rnd),
     agent_0_action        |-> acts[0],
     agent_1_action        |-> acts[1],
     agent_0_reasoning     |-> reas[0],
     agent_1_reasoning     |-> reas[1],
     agent_0_payoff        |-> payoff_0,
     agent_1_payoff        |-> payoff_1,
     agent_0_episode_score |-> scores[0],
     agent_1_episode_score |-> scores[1]]

\* ---------------------------------------------------------- episode engine
InitialHistoryKept(old) == old

InitialHistory(old) == << >>

InitialEpisodeScoresKept(old) == old

InitialEpisodeScores(old) == [i \in Agents |-> 0]

CooperationsOfOpponent(history) ==
    Cardinality({k \in 1..Len(history) : history[k].opp_action = "COOPERATE"})

Cooperations(history) ==
    Cardinality({k \in 1..Len(history) : history[k].my_action = "COOPERATE"})

CooperationRate(coop) == Divide(coop, RoundsPerEpisode)

AgentEpisodeData(score, history, refl) ==
    [episode_score    |-> score,
     cooperations     |-> Cooperations(history),
     cooperation_rate |-> CooperationRate(Cooperations(history)),
     reflection       |-> refl]

EpisodeData(ep) ==
    [episode |-> EpisodeIndex(ep),
     rounds  |-> round_details,
     agent_0 |-> AgentEpisodeData(episode_scores[0], episode_history[0], reflection[0]),
     agent_1 |-> AgentEpisodeData(episode_scores[1], episode_history[1], reflection[1])]

\* the episode loop of play_game
MoreEpisodesOneShort(next_episode) == next_episode + 1 < config.num_episodes

MoreEpisodes(next_episode) == next_episode < config.num_episodes

\* _get_reflection: what is returned for the backend's answer
ReflectionUnchecked(r) == r

ReflectionOrSentinel(r) == IF r = None THEN FailedReflection ELSE r

\* play_episode: whether the contexts are reset, and what reset keeps
ResetsContextAlways(flag) == TRUE

ResetsContextInverted(flag) == ~flag

ResetsContext(flag) == flag

KeepSystemPromptDropped == FALSE

KeepSystemPrompt == TRUE

\* the text an agent's backend writes as its reflection on an episode
ReflectionText(i, ep) ==
    "agent " \o ToString(i) \o " on period " \o ToString(ep + 1)

\* what the backend can answer to a reflection request: the text, or while
\* it is degraded an empty text, an error or nothing before the timeout
BackendError == "<error>"

BackendTimeout == "<timeout>"

ReflectionResponses(i, ep, degraded) ==
    {ReflectionText(i, ep)} \cup
    (IF degraded THEN {EmptyText, BackendError, BackendTimeout} ELSE {})

\* OllamaAgent.generate: text | failure
generate(answer) ==
    IF answer \in {EmptyText, BackendError, BackendTimeout} THEN None ELSE answer

ReflectionContext(ep, refl) ==
    "PREVIOUS PERIOD " \o ToString(ep + 1) \o " REFLECTION:\n" \o refl \o "\n"

\* the reflection play_episode hands back to the session of agent i
ReinjectedReflectionOfOpponent(i) == reflection[Other(i)]

ReinjectedReflection(i) == reflection[i]

\* the context operations of play_episode, in the order of the calls: both
\* resets, then both reflections appended
ContextOperations(ep) ==
    <<[kind |-> "reset", episode |-> ep, agent |-> 0, text |-> None,
       rounds |-> Len(round_details)],
      [kind |-> "reset", episode |-> ep, agent |-> 1, text |-> None,
       rounds |-> Len(round_details)],
      [kind |-> "append", episode |-> ep, agent |-> 0,
       text |-> ReflectionContext(ep, ReinjectedReflection(0)),
       rounds |-> Len(round_details)],
      [kind |-> "append", episode |-> ep, agent |-> 1,
       text |-> ReflectionContext(ep, ReinjectedReflection(1)),
       rounds |-> Len(round_details)]>>

\* OllamaAgent.reset_conversation(keep_system_prompt)
reset_conversation(conv, keep_system_prompt) ==
    [system_prompt |-> conv.system_prompt /\ keep_system_prompt,
     turns         |-> 0,
     standing      |-> << >>]

\* OllamaAgent.add_reflection_to_context(text)
add_reflection_to_context(conv, text) ==
    [conv EXCEPT !.standing = Append(@, text)]

\* play_round makes no call on an agent session other than the two
\* decision calls: the session is after the round what those left
ContextAfterRoundReset(conv) == reset_conversation(conv, TRUE)

ContextAfterRound(conv) == conv

\* the agent session records one exchange per decision it returned
RecordTurn(conv) == [conv EXCEPT !.turns = @ + 1]

\* ------------------------------------------------------------- game engine
\* play_game: the cooperations of agent i summed over the EpisodeRecords
TotalCooperationsOfOpponent(i) ==
    SeqSum([k \in 1..Len(all_episodes) |->
               IF i = 0 THEN all_episodes[k].agent_1.cooperations
                        ELSE all_episodes[k].agent_0.cooperations])

TotalCooperations(i) ==
    SeqSum([k \in 1..Len(all_episodes) |->
               IF i = 0 THEN all_episodes[k].agent_0.cooperations
                        ELSE all_episodes[k].agent_1.cooperations])

AgentResult(i) ==
    LET coops == TotalCooperations(i)
    IN  [total_score              |-> total_scores[i],
         total_cooperations       |-> coops,
         overall_cooperation_rate |-> Divide(coops, TotalRounds)]

GameResult ==
    [returned |-> TRUE,
     agent_0  |-> AgentResult(0),
     agent_1  |-> AgentResult(1),
     episodes |-> all_episodes]

NoResult ==
    [returned |-> FALSE,
     agent_0  |-> [total_score |-> 0, total_cooperations |-> 0,
                   overall_cooperation_rate |-> Divide(0, TotalRounds)],
     agent_1  |-> [total_score |-> 0, total_cooperations |-> 0,
                   overall_cooperation_rate |-> Divide(0, TotalRounds)],
     episodes |-> << >>]

NoLocals == [i \in Agents |-> None]

NoScores == << >>

\* __init__: the engine is set up only with a configuration that validates
ConstructsAnyway(cfg) == TRUE

Constructs(cfg) == validate(cfg)

\* ------------------------------------------------------------- the loader
\* the result files given to the loader and the shape of the documents they
\* hold: the number of agent sections, of episodes and of rounds per
\* episode, the first episode, if any, whose round data lacks a key, and
\* the first agent section, if any, that lacks a key (both counted from 1)
ResultFiles == {"a.json", "a2.json", "b.json", "c.json"}

Document(f) ==
    CASE f = "a.json" -> [username |-> "ann", agents |-> 2, episodes |-> 1,
                          rounds |-> 2, broken_episode |-> 0, broken_agent |-> 0]
      [] f = "a2.json" -> [username |-> "ann", agents |-> 2, episodes |-> 1,
                           rounds |-> 1, broken_episode |-> 0, broken_agent |-> 2]
      [] f = "b.json" -> [username |-> "bob", agents |-> 3, episodes |-> 2,
                          rounds |-> 1, broken_episode |-> 0, broken_agent |-> 0]
      [] f = "c.json" -> [username |-> "cat", agents |-> 2, episodes |-> 2,
                          rounds |-> 1, broken_episode |-> 2, broken_agent |-> 0]

\* what a document says about agent a in round r of episode e
DocAction(e, r, a) == IF (e + r + a) % 2 = 0 THEN "COOPERATE" ELSE "DEFECT"

DocPayoff(e, r, a) == (e + r + 2 * a) % 6

DocScore(e, r, a) == SeqSum([q \in 1..r |-> DocPayoff(e, q, a)])

DocReasoning(e, r, a) ==
    "agent " \o ToString(a) \o " on round " \o ToString(r)
             \o " of period " \o ToString(e)

DocReflection(e, a) == "agent " \o ToString(a) \o " on period " \o ToString(e)

\* the keys of a result document, as play_round and play_game write them
DocKey(a, field) == "agent_" \o ToString(a) \o "_" \o field

DocSection(a) == "agent_" \o ToString(a)

\* the RoundRecord of a document with the fields of its first n agents; in
\* the broken episode the reasoning of agent 0 is missing
RECURSIVE DocRound(_, _, _, _)
DocRound(f, e, r, n) ==
    IF n = 0 THEN ("round" :> r)
    ELSE LET a == n - 1
             fields == (DocKey(a, "action") :> DocAction(e, r, a))
                         @@ (DocKey(a, "payoff") :> DocPayoff(e, r, a))
                         @@ (DocKey(a, "episode_score") :> DocScore(e, r, a))
         IN  DocRound(f, e, r, a) @@
             (IF Document(f).broken_episode = e /\ a = 0
              THEN fields
              ELSE fields @@ (DocKey(a, "reasoning") :> DocReasoning(e, r, a)))

RECURSIVE DocEpisode(_, _, _)
DocEpisode(f, e, n) ==
    IF n = 0
    THEN ("episode" :> e)
           @@ ("rounds" :> [r \in 1..Document(f).rounds |->
                               DocRound(f, e, r, Document(f).agents)])
    ELSE LET a == n - 1
         IN  DocEpisode(f, e, a) @@
             (DocSection(a) :>
                 [episode_score |-> DocScore(e, Document(f).rounds, a),
                  reflection    |-> DocReflection(e, a)])

RECURSIVE DocSummary(_, _)
DocSummary(f, n) ==
    IF n = 0
    THEN ("username" :> Document(f).username)
           @@ ("episodes" :> [e \in 1..Document(f).episodes |->
                                 DocEpisode(f, e, Document(f).agents)])
    ELSE LET a == n - 1
             section == ("model" :> "model " \o ToString(a))
         IN  DocSummary(f, a) @@
             (DocSection(a) :>
                 IF Document(f).broken_agent = n
                 THEN section
                 ELSE section @@
                      ("total_score" :>
                          SeqSum([e \in 1..Document(f).episodes |->
                                     DocScore(e, Document(f).rounds, a)])))

\* json.load of the file
Data(f) == DocSummary(f, Document(f).agents)

EmptyTables ==
    [results |-> {}, llm_agents |-> {}, episodes |-> {}, rounds |-> {}]

NoTransaction == [state |-> "none", pending |-> EmptyTables]

\* load_json: the keys it reads for the agent with index idx
AgentKey(idx) == "agent_" \o ToString(idx)

RoundKeyOfFirstAgent(idx, field) == "agent_0_" \o field

RoundKey(idx, field) == "agent_" \o ToString(idx) \o "_" \o field

RoundFields == {"action", "reasoning", "payoff", "episode_score"}

\* `while f'agent_{agent_idx}' in data`: the sections counted from idx on
RECURSIVE CountAgents(_, _)
CountAgents(data, idx) ==
    IF AgentKey(idx) \in DOMAIN data THEN CountAgents(data, idx + 1) ELSE idx

ResultsRow(id, f) ==
    [results_id |-> id, filename |-> f, username |-> Data(f)["username"]]

AgentFields == {"model", "total_score"}

\* the agent sections before the first one a lookup of which raises KeyError
RECURSIVE CountSoundAgents(_, _)
CountSoundAgents(data, idx) ==
    IF AgentKey(idx) \in DOMAIN data /\ AgentFields \subseteq DOMAIN data[AgentKey(idx)]
    THEN CountSoundAgents(data, idx + 1)
    ELSE idx

\* no lookup of a key of an agent section raises KeyError
HasAgentKeys(data) == CountSoundAgents(data, 0) = CountAgents(data, 0)

\* the llm_agents rows of the first n agent sections
AgentRowsUpTo(id, data, n) ==
    {[results_id  |-> id,
      agent_idx   |-> a,
      agent_model |-> data[AgentKey(a)]["model"],
      total_score |-> data[AgentKey(a)]["total_score"]] :
        a \in 0..(n - 1)}

AgentRows(id, data) == AgentRowsUpTo(id, data, CountAgents(data, 0))

\* the rows of one episode_data; the episode_id sequence stood at last_id
EpisodeRows(id, episode_data, last_id) ==
    {[episode_id |-> last_id + a + 1,
      results_id |-> id,
      agent_idx  |-> a,
      episode    |-> episode_data["episode"],
      score      |-> episode_data[AgentKey(a)].episode_score,
      reflection |-> episode_data[AgentKey(a)].reflection] :
        a \in 0..(CountAgents(episode_data, 0) - 1)}

RoundRow(episode_id, round_data, a) ==
    [episode_id          |-> episode_id,
     round               |-> round_data["round"],
     action              |-> round_data[RoundKey(a, "action")],
     payoff              |-> round_data[RoundKey(a, "payoff")],
     ep_cumulative_score |-> round_data[RoundKey(a, "episode_score")],
     reasoning           |-> round_data[RoundKey(a, "reasoning")]]

RoundRows(episode_data, last_id) ==
    {RoundRow(last_id + a + 1, episode_data["rounds"][k], a) :
        a \in 0..(CountAgents(episode_data, 0) - 1),
        k \in 1..Len(episode_data["rounds"])}

\* no lookup of a round key of this episode_data raises KeyError
HasRoundKeys(episode_data) ==
    \A a \in 0..(CountAgents(episode_data, 0) - 1) :
        \A k \in 1..Len(episode_data["rounds"]) :
            \A field \in RoundFields :
                RoundKey(a, field) \in DOMAIN episode_data["rounds"][k]

\* the rows a statement of the transaction sees
Visible(tables, txn) ==
    [t \in DOMAIN tables |-> tables[t] \cup txn.pending[t]]

\* the unique constraint of ipd2.results: a file is in the table once
UniqueViolation(f, tables) ==
    \E row \in tables.results : row.filename = f

\* conn.rollback() of the UniqueViolation handler
RollbackMissing(txn) == txn

Rollback(txn) == NoTransaction

\* conn.rollback() of the handler of every other exception
RollbackOnErrorMissing(txn) == txn

RollbackOnError(txn) == NoTransaction

\* conn.commit()

Committed(tables, txn) == Visible(tables, txn)

\* what load_json hands back: (results_id, researcher), None, or it raises
Loaded(id, f) ==
    [kind |-> "loaded", results_id |-> id, researcher |-> Data(f)["username"]]

Skipped == [kind |-> "skipped", results_id |-> 0, researcher |-> None]

Raised == [kind |-> "raised", results_id |-> 0, researcher |-> None]

OnUniqueViolation == Skipped

CallRecord(f, before, after, txn, returned) ==
    [file |-> f, before |-> before, after |-> after, txn |-> txn,
     returned |-> returned]

\* load_batch: the three lists it returns
NoBatchResults == [loaded |-> << >>, skipped |-> << >>, failed |-> << >>]

\* sorted(filepaths): Python orders str by code point, "." before "2"
PathOrder == <<"a.json", "a2.json", "b.json", "c.json">>

Rank(filepath) == CHOOSE k \in 1..Len(PathOrder) : PathOrder[k] = filepath

InsertPath(filepath, ordered) ==
    LET k == Cardinality({j \in 1..Len(ordered) :
                             Rank(ordered[j]) <= Rank(filepath)})
    IN  SubSeq(ordered, 1, k) \o <<filepath>> \o SubSeq(ordered, k + 1, Len(ordered))

RECURSIVE sorted(_)
sorted(paths) ==
    IF paths = << >> THEN << >>
    ELSE InsertPath(paths[Len(paths)], sorted(SubSeq(paths, 1, Len(paths) - 1)))

\* load_batch: the list an outcome of load_json is appended to
Classified(lists, filepath, returned) ==
    CASE returned.kind = "raised" ->
            [lists EXCEPT !.failed = Append(@, <<filepath, "error">>)]
      [] returned.kind = "loaded" ->
            [lists EXCEPT !.loaded = Append(@, <<filepath, returned.results_id,
                                                returned.researcher>>)]
      [] returned.kind = "skipped" ->
            [lists EXCEPT !.skipped = Append(@, filepath)]

\* load_batch: the files the loop goes on with after an outcome of load_json
RemainingStopsOnFailure(queue, returned) ==
    IF returned.kind = "raised" THEN << >> ELSE Tail(queue)

Remaining(queue, returned) == Tail(queue)

\* the loader is not part of a game run, the engine not of a loader run
LoaderOff ==
    /\ db_pc = "off"
    /\ db_file = None
    /\ db_episode = 0
    /\ db_results_id = 0
    /\ db_seq = 0
    /\ db_episode_seq = 0
    /\ db_tables = EmptyTables
    /\ db_txn = NoTransaction
    /\ db_before = EmptyTables
    /\ db_history = << >>
    /\ batch_pc = "none"
    /\ filepaths = << >>
    /\ batch_queue = << >>
    /\ batch_results = NoBatchResults
    /\ batch_base = 0

\* ------------------------------------------------------------- the backend
\* The move an agent's backend states in each round of an episode is
\* scripted.  With a backend that never fails every script is played; with
\* a backend that can have its outage, the scripts that cooperate up to
\* some round and defect from then on.
Scripts == [1..RoundsPerEpisode -> Actions]

TriggerScripts ==
    {[r \in 1..RoundsPerEpisode |-> IF r <= t THEN "COOPERATE" ELSE "DEFECT"] :
        t \in 0..RoundsPerEpisode}

\* The backend has at most one outage in a game: a run of consecutive
\* requests of one call that get no clear answer.
Degraded == outage = "none" \/ (outage = "now" /\ requests > 0)

OutageAfter(failed, call_ends) ==
    IF failed THEN (IF call_ends THEN "over" ELSE "now")
    ELSE (IF outage = "now" THEN "over" ELSE outage)

\* -------------------------------------------------------------------- Init
\* main before EpisodicIPDGame is constructed: the configuration and the
\* two agent sessions exist, the engine does not
Init ==
    /\ LoaderOff
    /\ verbose \in BOOLEAN
    /\ reset_conversation_between_episodes \in BOOLEAN
    /\ pc = "new"
    /\ turn = 0
    /\ episode_num = 0
    /\ round_num = 0
    /\ total_scores = NoScores
    /\ all_episodes = << >>
    /\ episode_history = [i \in Agents |-> << >>]
    /\ episode_scores = [i \in Agents |-> 0]
    /\ round_details = << >>
    /\ prompt = [i \in Agents |-> NoPrompt]
    /\ requests = 0
    /\ ambiguous = 0
    /\ decision = NoLocals
    /\ action = NoLocals
    /\ reasoning = NoLocals
    /\ reflection = NoLocals
    /\ results = NoResult
    /\ play_game_calls = 0
    /\ calls = << >>
    /\ diagnostics = << >>
    /\ conversation = [i \in Agents |->
                          [system_prompt |-> TRUE, turns |-> 0, standing |-> << >>]]
    /\ events = << >>
    /\ \/ /\ config \in {StandardConfig, AsymmetricConfig}
          /\ script \in [Agents -> Scripts]
          /\ outage = "over"
       \/ /\ config \in {StandardConfig} \cup InvalidConfigs
          /\ script \in [Agents -> TriggerScripts]
          /\ outage = "none"

\* ----------------------------------------------------------------- actions
\* EpisodicIPDGame.__init__: validate the configuration, then set up the
\* overall game state; a configuration error propagates out of main
Construct ==
    /\ pc = "new"
    /\ IF Constructs(config)
       THEN /\ total_scores' = [i \in Agents |-> 0]
            /\ all_episodes' = << >>
            /\ pc' = "constructed"
       ELSE /\ pc' = "config_error"
            /\ UNCHANGED <<total_scores, all_episodes>>
    /\ UNCHANGED <<db_vars, config_vars, play_game_calls,
                   turn, episode_num, round_num, episode_vars,
                   round_vars, reflection, results, calls, diagnostics,
                   conversation, events, outage>>

\* play_game: the episode loop starts
PlayGame ==
    /\ pc = "constructed"
    /\ pc' = IF MoreEpisodes(0) THEN "episode" ELSE "summary"
    /\ episode_num' = 0
    /\ play_game_calls' = play_game_calls + 1
    /\ UNCHANGED <<db_vars, config_vars, turn, round_num, game_vars, episode_vars,
                   round_vars, reflection, results, calls, diagnostics,
                   conversation, events, outage>>

\* play_game called again on the engine whose last call has returned: the
\* episode loop starts anew; play_game assigns neither self.total_scores
\* nor self.all_episodes, so both are as the last call left them
PlayGameAgain ==
    /\ pc = "done"
    /\ play_game_calls < MaxGames
    /\ pc' = IF MoreEpisodes(0) THEN "episode" ELSE "summary"
    /\ episode_num' = 0
    /\ play_game_calls' = play_game_calls + 1
    /\ UNCHANGED <<db_vars, config_vars, turn, round_num, game_vars, episode_vars,
                   round_vars, reflection, results, calls, diagnostics,
                   conversation, events, outage>>

\* play_episode: the episode-specific state
StartEpisode ==
    /\ pc = "episode"
    /\ episode_history' = [i \in Agents |-> InitialHistory(episode_history[i])]
    /\ episode_scores' = InitialEpisodeScores(episode_scores)
    /\ round_details' = << >>
    /\ reflection' = NoLocals
    /\ round_num' = 0
    /\ turn' = 0
    /\ pc' = IF MoreRounds(0) THEN "decide" ELSE "reflect"
    /\ UNCHANGED <<db_vars, config_vars, play_game_calls,
                   episode_num, game_vars, round_vars, results,
                   calls, diagnostics, conversation, events, outage>>

\* _get_agent_decision_with_retry: one backend request of the retry ladder;
\* with the last one the decision is returned to play_round
DecisionRequest ==
    /\ pc = "decide"
    /\ \E r \in BackendResponses(script[turn][round_num + 1], Degraded) :
        LET n == requests + 1
            d == extract_decision(r)
            a == IF d = None THEN ambiguous + 1 ELSE ambiguous
        IN  /\ prompt' = [prompt EXCEPT ![turn] =
                              IF requests = 0 THEN PromptOf(turn) ELSE @]
            /\ outage' = OutageAfter(d = None, LadderDone(n, r))
            /\ IF LadderDone(n, r)
               THEN /\ decision' = [decision EXCEPT ![turn] = d]
                    /\ action' = [action EXCEPT ![turn] = ReturnedAction(d)]
                    /\ reasoning' = [reasoning EXCEPT ![turn] = ReturnedReasoning(d, r)]
                    /\ diagnostics' =
                          IF EmitsCritical(d, r, verbose)
                          THEN Append(diagnostics,
                                      [episode |-> episode_num, round |-> round_num,
                                       agent |-> turn])
                          ELSE diagnostics
                    /\ calls' = Append(calls,
                                       [episode |-> episode_num, round |-> round_num,
                                        agent |-> turn, requests |-> n,
                                        ambiguous |-> a,
                                        decision |-> d, response |-> r])
                    /\ conversation' = [conversation EXCEPT ![turn] = RecordTurn(@)]
                    /\ requests' = 0
                    /\ ambiguous' = 0
                    /\ turn' = Other(turn)
                    /\ pc' = AfterDecision(turn)
               ELSE /\ requests' = n
                    /\ ambiguous' = a
                    /\ UNCHANGED <<decision, action, reasoning, diagnostics,
                                   calls, conversation, turn, pc>>
    /\ UNCHANGED <<db_vars, config_vars, play_game_calls,
                   episode_num, round_num, game_vars,
                   episode_vars, reflection, results, events>>

\* play_round after both decisions: payoffs, scores, histories, RoundRecord;
\* a pair of actions the payoff matrix has no entry for is a KeyError that
\* propagates out of play_game
ResolveRound ==
    /\ pc = "resolve"
    /\ IF PayoffKey(action[0], action[1]) \in DOMAIN config.payoff_matrix
       THEN LET payoffs  == config.payoff_matrix[PayoffKey(action[0], action[1])]
                payoff_0 == AgentPayoff(payoffs, 0)
                payoff_1 == AgentPayoff(payoffs, 1)
                scores   == NewEpisodeScores(episode_scores, payoff_0, payoff_1)
            IN  /\ episode_scores' = scores
                /\ total_scores' = NewTotalScores(total_scores, payoff_0, payoff_1)
                /\ episode_history' =
                      [episode_history EXCEPT
                         ![0] = Append(@, HistoryEntry(action[0], action[1],
                                                       payoff_0, payoff_1)),
                         ![1] = Append(@, HistoryEntry(action[1], action[0],
                                                       payoff_1, payoff_0))]
                /\ round_details' =
                      Append(round_details,
                             RoundData(round_num, action, reasoning,
                                       payoff_0, payoff_1,
                                       RecordedScores(episode_scores, scores)))
                /\ round_num' = round_num + 1
                /\ pc' = IF MoreRounds(round_num + 1) THEN "decide" ELSE "reflect"
                /\ prompt' = [i \in Agents |-> NoPrompt]
                /\ decision' = NoLocals
                /\ action' = NoLocals
                /\ reasoning' = NoLocals
                /\ conversation' =
                      [i \in Agents |-> ContextAfterRound(conversation[i])]
       ELSE /\ pc' = "aborted"
            /\ UNCHANGED <<episode_scores, total_scores, episode_history,
                           round_details, round_num, prompt, decision, action,
                           reasoning, conversation>>
    /\ UNCHANGED <<db_vars, config_vars, play_game_calls,
                   turn, episode_num, all_episodes, requests,
                   ambiguous, reflection, results, calls, diagnostics,
                   events, outage>>

\* _get_reflection: the single reflection request of an agent
ReflectionRequest ==
    /\ pc = "reflect"
    /\ \E answer \in ReflectionResponses(turn, episode_num, Degraded) :
        LET r == generate(answer)
        IN  /\ reflection' = [reflection EXCEPT ![turn] = ReflectionOrSentinel(r)]
            /\ events' = Append(events,
                                [kind |-> "reflection", episode |-> episode_num,
                                 agent |-> turn, text |-> answer,
                                 rounds |-> Len(round_details)])
            /\ outage' = OutageAfter(r = None, TRUE)
    /\ turn' = Other(turn)
    /\ pc' = IF turn = 0 THEN "reflect" ELSE "context"
    /\ UNCHANGED <<db_vars, config_vars, play_game_calls,
                   episode_num, round_num, game_vars,
                   episode_vars, round_vars, results, calls, diagnostics,
                   conversation>>

\* play_episode after the reflections: context for the next episode, the
\* EpisodeRecord, and play_game appending it
FinishEpisode ==
    /\ pc = "context"
    /\ conversation' =
          IF ResetsContext(reset_conversation_between_episodes)
          THEN [i \in Agents |->
                  add_reflection_to_context(
                      reset_conversation(conversation[i], KeepSystemPrompt),
                      ReflectionContext(episode_num, ReinjectedReflection(i)))]
          ELSE conversation
    /\ events' =
          IF ResetsContext(reset_conversation_between_episodes)
          THEN events \o ContextOperations(episode_num)
          ELSE events
    /\ all_episodes' = Append(all_episodes, EpisodeData(episode_num))
    /\ episode_num' = episode_num + 1
    /\ pc' = IF MoreEpisodes(episode_num + 1) THEN "episode" ELSE "summary"
    /\ UNCHANGED <<db_vars, config_vars, play_game_calls,
                   turn, round_num, total_scores, episode_vars,
                   round_vars, reflection, results, calls, diagnostics,
                   outage>>

\* play_game after the last episode: the GameResult
FinishGame ==
    /\ pc = "summary"
    /\ results' = GameResult
    /\ pc' = "done"
    /\ UNCHANGED <<db_vars, config_vars, play_game_calls,
                   turn, episode_num, round_num, game_vars,
                   episode_vars, round_vars, reflection, calls, diagnostics,
                   conversation, events, outage>>

Next ==
    \/ Construct
    \/ PlayGame
    \/ StartEpisode
    \/ DecisionRequest
    \/ ResolveRound
    \/ ReflectionRequest
    \/ FinishEpisode
    \/ FinishGame

Spec == Init /\ [][Next]_vars

\* a caller that holds on to the engine and plays up to MaxGames games on it
ReplayNext ==
    \/ Next
    \/ PlayGameAgain

ReplaySpec == Init /\ [][ReplayNext]_vars

\* main runs to its end without waiting for anything but the backend, and
\* every backend request returns (an answer, an error or its timeout)
FairSpec == Spec /\ WF_vars(Next)

\* ========================================================== the loader run
\* ForgeDB connected to an empty database; no game is run by the loader
DbInit ==
    /\ db_pc = "idle"
    /\ db_file = None
    /\ db_episode = 0
    /\ db_results_id = 0
    /\ db_seq = 0
    /\ db_episode_seq = 0
    /\ db_tables = EmptyTables
    /\ db_txn = NoTransaction
    /\ db_before = EmptyTables
    /\ db_history = << >>
    /\ batch_pc = "none"
    /\ filepaths = << >>
    /\ batch_queue = << >>
    /\ batch_results = NoBatchResults
    /\ batch_base = 0
    /\ config = StandardConfig
    /\ script = [i \in Agents |-> [r \in 1..RoundsPerEpisode |-> "COOPERATE"]]
    /\ verbose = FALSE
    /\ reset_conversation_between_episodes = FALSE
    /\ pc = "not run"
    /\ turn = 0
    /\ episode_num = 0
    /\ round_num = 0
    /\ total_scores = NoScores
    /\ all_episodes = << >>
    /\ episode_history = [i \in Agents |-> << >>]
    /\ episode_scores = [i \in Agents |-> 0]
    /\ round_details = << >>
    /\ prompt = [i \in Agents |-> NoPrompt]
    /\ requests = 0
    /\ ambiguous = 0
    /\ decision = NoLocals
    /\ action = NoLocals
    /\ reasoning = NoLocals
    /\ reflection = NoLocals
    /\ results = NoResult
    /\ play_game_calls = 0
    /\ calls = << >>
    /\ diagnostics = << >>
    /\ conversation = [i \in Agents |->
                          [system_prompt |-> TRUE, turns |-> 0, standing |-> << >>]]
    /\ events = << >>
    /\ outage = "over"

\* load_json leaves through one of its three exits
LoadReturns(f, before, tables, txn, returned) ==
    /\ db_tables' = tables
    /\ db_txn' = txn
    /\ db_history' = Append(db_history,
                            CallRecord(f, before, tables, txn, returned))
    /\ db_pc' = "idle"

\* load_json(filepath): the file is read and its results row inserted; a
\* file that is already in the table violates the unique constraint, and
\* the handler rolls back, logs the skip and returns None
load_json(f) ==
    /\ db_pc = "idle"
    /\ db_file' = f
    /\ db_before' = db_tables
    /\ db_seq' = db_seq + 1
    /\ db_episode' = 0
    /\ IF UniqueViolation(f, Visible(db_tables, db_txn))
       THEN /\ LoadReturns(f, db_tables, db_tables,
                           Rollback([db_txn EXCEPT !.state = "aborted"]),
                           OnUniqueViolation)
            /\ UNCHANGED db_results_id
       ELSE /\ db_results_id' = db_seq + 1
            /\ db_txn' = [state   |-> "open",
                          pending |-> [db_txn.pending EXCEPT !.results =
                                          @ \cup {ResultsRow(db_seq + 1, f)}]]
            /\ db_pc' = "agents"
            /\ UNCHANGED <<db_tables, db_history>>
    /\ UNCHANGED <<db_episode_seq, engine_vars>>

\* load_json called on its own (get_files with the path of a file)
LoadJson ==
    /\ batch_pc \in {"none", "done"}
    /\ Len(db_history) < MaxLoads
    /\ \E f \in ResultFiles : load_json(f)
    /\ UNCHANGED batch_vars

\* load_json: one llm_agents row per agent section of the document; a key
\* missing from an agent section is a KeyError after the rows of the
\* sections before it, and the handler rolls back, logs the error and
\* raises it again
LoadAgents ==
    /\ db_pc = "agents"
    /\ LET data == Data(db_file)
       IN  IF ~HasAgentKeys(data)
           THEN LoadReturns(db_file, db_before, db_tables,
                            RollbackOnError([db_txn EXCEPT
                                !.state = "aborted",
                                !.pending.llm_agents =
                                    @ \cup AgentRowsUpTo(db_results_id, data,
                                                         CountSoundAgents(data, 0))]),
                            Raised)
           ELSE /\ db_txn' = [db_txn EXCEPT !.pending.llm_agents =
                                  @ \cup AgentRows(db_results_id, data)]
                /\ db_pc' = IF Len(data["episodes"]) > 0 THEN "episodes" ELSE "commit"
                /\ UNCHANGED <<db_tables, db_history>>
    /\ UNCHANGED <<db_file, db_episode, db_results_id, db_seq, db_episode_seq,
                   db_before, batch_vars, engine_vars>>

\* load_json: the next episode_data of the document: for each of its agent
\* sections an episodes row and, under the episode_id the insert returned,
\* one rounds row per round; a key missing from the round data is a
\* KeyError after the first episodes row, and the handler rolls back, logs
\* the error and raises it again
LoadEpisode ==
    /\ db_pc = "episodes"
    /\ LET e            == db_episode + 1
           episode_data == Data(db_file)["episodes"][e]
           episodes     == EpisodeRows(db_results_id, episode_data, db_episode_seq)
       IN  IF ~HasRoundKeys(episode_data)
           THEN /\ LoadReturns(db_file, db_before, db_tables,
                               RollbackOnError([db_txn EXCEPT
                                   !.state = "aborted",
                                   !.pending.episodes =
                                       @ \cup {row \in episodes : row.agent_idx = 0}]),
                               Raised)
                /\ db_episode_seq' = db_episode_seq + 1
                /\ UNCHANGED db_episode
           ELSE /\ db_txn' = [db_txn EXCEPT
                                 !.pending.episodes = @ \cup episodes,
                                 !.pending.rounds =
                                     @ \cup RoundRows(episode_data, db_episode_seq)]
                /\ db_episode_seq' = db_episode_seq + Cardinality(episodes)
                /\ db_episode' = e
                /\ db_pc' = IF e < Len(Data(db_file)["episodes"])
                            THEN "episodes" ELSE "commit"
                /\ UNCHANGED <<db_tables, db_history>>
    /\ UNCHANGED <<db_file, db_results_id, db_seq, db_before, batch_vars,
                   engine_vars>>

\* load_json: conn.commit() and the return of (results_id, researcher)
LoadCommit ==
    /\ db_pc = "commit"
    /\ LoadReturns(db_file, db_before, Committed(db_tables, db_txn),
                   NoTransaction,
                   Loaded(db_results_id, db_file))
    /\ UNCHANGED <<db_file, db_episode, db_results_id, db_seq, db_episode_seq,
                   db_before, batch_vars, engine_vars>>

DbNext ==
    \/ LoadJson
    \/ LoadAgents
    \/ LoadEpisode
    \/ LoadCommit

DbSpec == DbInit /\ [][DbNext]_vars

\* =========================================================== the batch run
\* the lists of files load_batch may be given: any order, a file more than
\* once, as many as the load_json calls that are left
FileLists(longest) == UNION {[1..n -> ResultFiles] : n \in 0..longest}

\* load_batch(source) with a list: no file is an empty result at once,
\* otherwise the loop over sorted(filepaths) starts with empty lists
LoadBatch ==
    /\ db_pc = "idle"
    /\ batch_pc \in {"none", "done"}
    /\ Len(db_history) < MaxLoads
    /\ \E paths \in FileLists(MaxLoads - Len(db_history)) :
        /\ filepaths' = paths
        /\ batch_queue' = sorted(paths)
        /\ batch_pc' = IF paths = << >> THEN "done" ELSE "loop"
    /\ batch_results' = NoBatchResults
    /\ batch_base' = Len(db_history)
    /\ UNCHANGED <<db_pc, db_file, db_episode, db_results_id, db_seq,
                   db_episode_seq, db_tables, db_txn, db_before, db_history,
                   engine_vars>>

\* load_batch: the loop calls load_json with the next file
BatchLoadJson ==
    /\ batch_pc = "loop"
    /\ load_json(Head(batch_queue))
    /\ batch_pc' = "called"
    /\ UNCHANGED <<filepaths, batch_queue, batch_results, batch_base>>

\* load_batch: load_json has returned or raised; the file goes to loaded,
\* skipped or failed and the loop goes on, or load_batch returns the lists
BatchClassify ==
    /\ batch_pc = "called"
    /\ db_pc = "idle"
    /\ LET returned == db_history[Len(db_history)].returned
           rest     == Remaining(batch_queue, returned)
       IN  /\ batch_results' = Classified(batch_results, Head(batch_queue), returned)
           /\ batch_queue' = rest
           /\ batch_pc' = IF rest = << >> THEN "done" ELSE "loop"
    /\ UNCHANGED <<db_pc, db_file, db_episode, db_results_id, db_seq,
                   db_episode_seq, db_tables, db_txn, db_before, db_history,
                   filepaths, batch_base, engine_vars>>

BatchNext ==
    \/ DbNext
    \/ LoadBatch
    \/ BatchLoadJson
    \/ BatchClassify

BatchSpec == DbInit /\ [][BatchNext]_vars

\* ================================================================== claims
\* the fields of a RoundRecord and of an EpisodeRecord that belong to agent i
ActionOf(rd, i) == IF i = 0 THEN rd.agent_0_action ELSE rd.agent_1_action
ReasoningOf(rd, i) == IF i = 0 THEN rd.agent_0_reasoning ELSE rd.agent_1_reasoning
PayoffOf(rd, i) == IF i = 0 THEN rd.agent_0_payoff ELSE rd.agent_1_payoff
AgentOf(rec, i) == IF i = 0 THEN rec.agent_0 ELSE rec.agent_1

\* the RoundRecords of episode e (counted from 0) that exist so far
RoundsOf(e) ==
    IF e < Len(all_episodes) THEN all_episodes[e + 1].rounds
    ELSE IF e = episode_num /\ pc \in {"decide", "resolve", "reflect", "context"}
         THEN round_details
         ELSE << >>

Recorded(c) == c.round < Len(RoundsOf(c.episode))

\* the action and the reasoning play_round holds for a returned decision:
\* in the RoundRecord once it is written, in play_round's locals before
ActionFor(c) ==
    IF Recorded(c) THEN ActionOf(RoundsOf(c.episode)[c.round + 1], c.agent)
    ELSE action[c.agent]

ReasoningFor(c) ==
    IF Recorded(c) THEN ReasoningOf(RoundsOf(c.episode)[c.round + 1], c.agent)
    ELSE reasoning[c.agent]

Calls == {calls[k] : k \in 1..Len(calls)}

CallsOf(e, r, i) ==
    {k \in 1..Len(calls) :
        calls[k].episode = e /\ calls[k].round = r /\ calls[k].agent = i}

DiagnosticsOf(e, r, i) ==
    {k \in 1..Len(diagnostics) :
        diagnostics[k].episode = e /\ diagnostics[k].round = r
            /\ diagnostics[k].agent = i}

\* C1: in every completed episode, the episode_score of each agent in the
\* EpisodeRecord is the sum of the agent's payoffs over the episode's
\* RoundRecords, forced-fallback rounds included.
C1_EpisodeScoreIsPayoffSum ==
    \A e \in 1..Len(all_episodes) : \A i \in Agents :
        LET ep == all_episodes[e]
        IN  AgentOf(ep, i).episode_score =
                SeqSum([k \in 1..Len(ep.rounds) |-> PayoffOf(ep.rounds[k], i)])

C1_Witness ==
    \E e \in 1..Len(all_episodes) :
        /\ Len(all_episodes[e].rounds) = RoundsPerEpisode
        /\ all_episodes[e].agent_0.episode_score # all_episodes[e].agent_1.episode_score
        /\ \E k \in 1..Len(diagnostics) : diagnostics[k].episode = e - 1

\* C2: in the GameResult play_game returns, each agent's total_score is the
\* sum of the agent's episode_score over the EpisodeRecords of the result.
C2_TotalScoreIsEpisodeSum ==
    results.returned =>
        \A i \in Agents :
            AgentOf(results, i).total_score =
                SeqSum([e \in 1..Len(results.episodes) |->
                            AgentOf(results.episodes[e], i).episode_score])

C2_Witness ==
    /\ results.returned
    /\ Len(results.episodes) = NumEpisodes
    /\ results.agent_0.total_score > results.agent_1.total_score
    /\ results.agent_1.total_score > 0

\* C3: whatever the backend answers (clear, ambiguous, failure), each agent's
\* decision request of a round has resolved to exactly one Action in
\* {COOPERATE, DEFECT} when play_round looks up the payoffs, and every
\* RoundRecord holds such an Action for both agents.
C3_DecisionAlwaysConcrete ==
    /\ pc = "resolve" =>
          \A i \in Agents :
              /\ action[i] \in Actions
              /\ Cardinality(CallsOf(episode_num, round_num, i)) = 1
    /\ \A e \in 0..NumEpisodes - 1 : \A k \in 1..Len(RoundsOf(e)) : \A i \in Agents :
          /\ ActionOf(RoundsOf(e)[k], i) \in Actions
          /\ Cardinality(CallsOf(e, k - 1, i)) = 1

C3_Witness ==
    /\ pc = "resolve"
    /\ \E i \in Agents : decision[i] = None /\ action[Other(i)] = "COOPERATE"

\* C4: when the retry ladder ends with no decision the recorded action is
\* DEFECT; a recorded DEFECT comes from that path or from an extracted
\* DEFECT, and a recorded COOPERATE only from an extracted COOPERATE.
C4_FallbackIsDefect ==
    \A c \in Calls :
        /\ c.decision = None => ActionFor(c) = "DEFECT"
        /\ ActionFor(c) = "DEFECT" => c.decision \in {None, "DEFECT"}
        /\ ActionFor(c) = "COOPERATE" => c.decision = "COOPERATE"

C4_Witness ==
    \E c \in Calls :
        /\ c.decision = None
        /\ Recorded(c)
        /\ script[c.agent][c.round + 1] = "COOPERATE"
        /\ ActionFor(c) = "DEFECT"

\* C5: in every forced-fallback round the reasoning stored for the failing
\* agent is a synthetic text, never the raw last response of the agent,
\* whether that response was empty or not.
C5_FallbackReasoningIsSynthetic ==
    \A c \in Calls :
        c.decision = None =>
            /\ ReasoningFor(c) # c.response
            /\ ReasoningFor(c) = FailedToRespond

\* C6: every forced-fallback substitution has its diagnostic, emitted when the
\* decision returns and whether verbose is set or not; a decision that was
\* extracted has none.
C6_FallbackIsReported ==
    /\ \A c \in Calls :
          Cardinality(DiagnosticsOf(c.episode, c.round, c.agent)) =
              (IF c.decision = None THEN 1 ELSE 0)
    /\ \A k \in 1..Len(diagnostics) :
          \E c \in Calls :
              /\ c.episode = diagnostics[k].episode
              /\ c.round = diagnostics[k].round
              /\ c.agent = diagnostics[k].agent
              /\ c.decision = None

C6_Witness ==
    /\ ~verbose
    /\ pc = "resolve"
    /\ \E c \in Calls :
          /\ c.decision = None
          /\ c.episode = episode_num /\ c.round = round_num
          /\ DiagnosticsOf(c.episode, c.round, c.agent) # {}

\* C7: a decision whose first k responses were ambiguous, k < retry budget,
\* and whose next response held a valid Action returns that Action, not the
\* fallback, after exactly k + 1 backend requests.
C7_RetrySuccess ==
    \A c \in Calls :
        (c.decision \in Actions /\ c.ambiguous < RetryBudget) =>
            /\ ActionFor(c) = c.decision
            /\ ActionFor(c) = script[c.agent][c.round + 1]
            /\ c.requests = c.ambiguous + 1
            /\ DiagnosticsOf(c.episode, c.round, c.agent) = {}

C7_Witness ==
    \E c \in Calls :
        /\ c.ambiguous >= 1
        /\ c.ambiguous < RetryBudget
        /\ c.decision = "COOPERATE"
        /\ ActionFor(c) = "COOPERATE"

\* C8: a decision all of whose responses were ambiguous returns the fallback
\* DEFECT after exactly retry budget + 1 backend requests, and the failure
\* is flagged; no decision ever takes more requests.
C8_RetryExhaustion ==
    /\ requests <= RetryBudget
    /\ \A c \in Calls :
          /\ c.requests <= RetryBudget + 1
          /\ c.ambiguous = c.requests =>
                /\ c.requests = RetryBudget + 1
                /\ c.decision = None
                /\ ActionFor(c) = "DEFECT"
                /\ DiagnosticsOf(c.episode, c.round, c.agent) # {}

C8_Witness ==
    \E c \in Calls :
        /\ c.ambiguous = c.requests
        /\ c.requests = RetryBudget + 1
        /\ c.response = EmptyText
        /\ ActionFor(c) = "DEFECT"

\* C9: in every EpisodeRecord, each agent's cooperations is the number of the
\* episode's rounds in which it played COOPERATE, cooperation_rate is
\* cooperations / rounds_per_episode, and 0 <= cooperations <=
\* rounds_per_episode, so that the rate is in [0, 1].
C9_CooperationStatistics ==
    \A e \in 1..Len(all_episodes) : \A i \in Agents :
        LET ep   == all_episodes[e]
            data == AgentOf(ep, i)
        IN  /\ data.cooperations =
                  Cardinality({k \in 1..Len(ep.rounds) :
                                  ActionOf(ep.rounds[k], i) = "COOPERATE"})
            /\ data.cooperation_rate.num = data.cooperations
            /\ data.cooperation_rate.den = RoundsPerEpisode
            /\ 0 <= data.cooperation_rate.num
            /\ data.cooperation_rate.num <= data.cooperation_rate.den
            /\ data.cooperation_rate.den > 0

C9_Witness ==
    \E e \in 1..Len(all_episodes) :
        /\ all_episodes[e].agent_0.cooperations > all_episodes[e].agent_1.cooperations
        /\ all_episodes[e].agent_1.cooperations > 0
        /\ all_episodes[e].agent_0.cooperations < RoundsPerEpisode

\* C10: the decision prompt of round r shows at most history_window_size
\* rounds; they are the most recent rounds before r of the episode, in
\* order, as the agent saw them, and no round with index >= r.
C10_HistoryWindow ==
    \A i \in Agents :
        prompt[i].rendered =>
            LET p == prompt[i]
                n == Len(p.shown)
            IN  /\ n <= HistoryWindow
                /\ p.round = round_num /\ p.episode = episode_num
                /\ n = Min(HistoryWindow, p.round)
                /\ \A j \in 1..n :
                      /\ p.shown[j].index = p.round - n + j - 1
                      /\ p.shown[j].index < p.round
                      /\ p.shown[j].index + 1 <= Len(round_details)
                      /\ p.shown[j].entry.my_action =
                            ActionOf(round_details[p.shown[j].index + 1], i)
                      /\ p.shown[j].entry.opp_action =
                            ActionOf(round_details[p.shown[j].index + 1], Other(i))

C10_Witness ==
    \E i \in Agents :
        /\ prompt[i].rendered
        /\ episode_num > 0
        /\ Len(prompt[i].shown) = HistoryWindow
        /\ prompt[i].round > HistoryWindow

\* the history of agent i as the completed rounds of the episode give it
HistoryFromRecords(records, i) ==
    [k \in 1..Len(records) |->
        HistoryEntry(ActionOf(records[k], i), ActionOf(records[k], Other(i)),
                     PayoffOf(records[k], i), PayoffOf(records[k], Other(i)))]

ScoreFromRecords(records, i) ==
    SeqSum([k \in 1..Len(records) |-> PayoffOf(records[k], i)])

\* C11: within a round the two decisions do not interfere: the decision
\* prompt of agent 1 in round r is determined by the completed rounds before
\* r alone (history and both running scores), whatever agent 0 has already
\* chosen in round r, and no prompt of either agent shows an action or a
\* payoff of round r.
C11_NonInterference ==
    \A i \in Agents :
        prompt[i].rendered =>
            /\ Len(round_details) = round_num
            /\ prompt[i] =
                  format_round_prompt(round_num, episode_num,
                                      HistoryFromRecords(round_details, i),
                                      ScoreFromRecords(round_details, i),
                                      ScoreFromRecords(round_details, Other(i)),
                                      HistoryWindow)
            /\ \A j \in 1..Len(prompt[i].shown) :
                  prompt[i].shown[j].index < round_num

C11_Witness ==
    /\ prompt[1].rendered
    /\ action[0] \in Actions
    /\ action[1] = None
    /\ round_num > 0
    /\ Len(prompt[1].shown) > 0

\* play_episode has returned and the next one has not started
AtEpisodeBoundary ==
    pc \in {"episode", "summary", "done"} /\ Len(all_episodes) > 0

\* C12: with reset-between-episodes enabled, after the reset at an episode
\* boundary the tactical history of each agent session has length zero and
\* its system prompt is still present.
C12_ResetClearsHistory ==
    reset_conversation_between_episodes =>
        \A i \in Agents :
            /\ conversation[i].system_prompt
            /\ AtEpisodeBoundary => conversation[i].turns = 0

C12_Witness ==
    /\ reset_conversation_between_episodes
    /\ AtEpisodeBoundary
    /\ \E k \in 1..Len(events) : events[k].kind = "reset"
    /\ \E k \in 1..Len(calls) : calls[k].agent = 0
    /\ conversation[0].turns = 0

\* C13: with reset-between-episodes disabled, the history of an agent
\* session after episode N holds all the rounds played so far,
\* N * rounds_per_episode: it is not cleared at episode boundaries.
C13_NoResetKeepsHistory ==
    ~reset_conversation_between_episodes =>
        \A i \in Agents :
            /\ conversation[i].turns =
                  Cardinality({k \in 1..Len(calls) : calls[k].agent = i})
            /\ AtEpisodeBoundary =>
                  conversation[i].turns =
                      Len(all_episodes) * config.rounds_per_episode

C13_Witness ==
    /\ ~reset_conversation_between_episodes
    /\ AtEpisodeBoundary
    /\ Len(all_episodes) = NumEpisodes
    /\ conversation[1].turns = TotalRounds

\* C14: once the engine is constructed, play_game runs to completion and
\* returns a GameResult with all num_episodes episodes, whatever the backend
\* answers (ambiguous text, empty response, timeout, failed reflection); no
\* failure aborts the game.
C14_GameAlwaysCompletes ==
    /\ [](pc # "aborted")
    /\ (pc = "constructed") ~>
          (/\ pc = "done"
           /\ results.returned
           /\ Len(results.episodes) = config.num_episodes)

C14_Witness ==
    /\ pc = "done"
    /\ results.returned
    /\ Len(results.episodes) = NumEpisodes
    /\ diagnostics # << >>
    /\ \E k \in 1..Len(calls) : calls[k].response \in {None, EmptyText}

\* the reflection requests issued so far for agent i in episode e
ReflectionsOf(e, i) ==
    {k \in 1..Len(events) :
        /\ events[k].kind = "reflection"
        /\ events[k].episode = e
        /\ events[k].agent = i}

\* C15: a reflection is one backend request per agent and episode, never
\* retried; when the request fails (an empty answer, an error or a timeout)
\* the EpisodeRecord holds the sentinel text, otherwise the answer, and the
\* episode completes either way.
C15_ReflectionSingleRequest ==
    \A i \in Agents :
        /\ \A e \in 0..NumEpisodes : Cardinality(ReflectionsOf(e, i)) <= 1
        /\ \A e \in 1..Len(all_episodes) :
              /\ Cardinality(ReflectionsOf(e - 1, i)) = 1
              /\ \A k \in ReflectionsOf(e - 1, i) :
                    AgentOf(all_episodes[e], i).reflection =
                        IF events[k].text \in {EmptyText, BackendError, BackendTimeout}
                        THEN FailedReflection
                        ELSE events[k].text
        /\ \A e \in 0..NumEpisodes :
              (ReflectionsOf(e, i) # {} /\ (e < episode_num \/ pc = "aborted"))
                  => e < Len(all_episodes)

C15_Witness ==
    \E e \in 1..Len(all_episodes) :
        /\ all_episodes[e].agent_0.reflection = FailedReflection
        /\ all_episodes[e].agent_1.reflection # FailedReflection
        /\ \E k \in ReflectionsOf(e - 1, 0) : events[k].text = BackendTimeout

\* C16: an invalid configuration (a count that is not positive, a payoff
\* matrix that does not cover the four pairs) is rejected when the engine is
\* constructed: no decision or reflection request has been issued to either
\* agent, and no episode, score or history state exists, then or later.
C16_ValidationIsPreGame ==
    /\ pc = "config_error" => ~validate(config)
    /\ ~validate(config) =>
          /\ pc \in {"new", "config_error"}
          /\ calls = << >> /\ events = << >> /\ diagnostics = << >>
          /\ requests = 0
          /\ \A i \in Agents :
                /\ ~prompt[i].rendered
                /\ conversation[i].turns = 0
                /\ episode_history[i] = << >>
          /\ total_scores = NoScores
          /\ all_episodes = << >> /\ round_details = << >>
          /\ ~results.returned

C16_Witness ==
    /\ pc = "config_error"
    /\ config.payoff_matrix = IncompleteMatrix
    /\ total_scores = NoScores

\* the scenario of two episodes of three rounds in which agent 0 answers
\* COOPERATE, COOPERATE, DEFECT and agent 1 COOPERATE, DEFECT, DEFECT, under
\* the standard matrix
ScenarioCCDvsCDD ==
    /\ config.num_episodes = 2 /\ config.rounds_per_episode = 3
    /\ config.payoff_matrix = PayoffMatrix
    /\ script[0] = <<"COOPERATE", "COOPERATE", "DEFECT">>
    /\ script[1] = <<"COOPERATE", "DEFECT", "DEFECT">>

\* no decision of episode e (counted from 0) was a forced fallback
AnsweredAsScripted(e) ==
    \A k \in 1..Len(calls) : calls[k].episode = e => calls[k].decision # None

RoundPayoffs(ep) ==
    [k \in 1..Len(ep.rounds) |-> <<ep.rounds[k].agent_0_payoff,
                                   ep.rounds[k].agent_1_payoff>>]

\* C17: in the scenario CCD against CDD with the standard matrix, every
\* episode has the round payoffs (3,3), (0,5), (1,1), the episode score
\* (4,9) and the cooperation counts (2,1).
C17_EndToEndScenario ==
    ScenarioCCDvsCDD =>
        \A e \in 1..Len(all_episodes) :
            AnsweredAsScripted(e - 1) =>
                LET ep == all_episodes[e]
                IN  /\ RoundPayoffs(ep) = <<(<<3, 3>>), (<<0, 5>>), (<<1, 1>>)>>
                    /\ ep.agent_0.episode_score = 4
                    /\ ep.agent_1.episode_score = 9
                    /\ ep.agent_0.cooperations = 2
                    /\ ep.agent_1.cooperations = 1

C17_Witness ==
    /\ ScenarioCCDvsCDD
    /\ pc = "done"
    /\ Len(all_episodes) = 2
    /\ AnsweredAsScripted(0) /\ AnsweredAsScripted(1)
    /\ results.agent_0.total_score = 8
    /\ results.agent_1.total_score = 18

\* every RoundRecord written so far
AllRoundRecords ==
    UNION {{all_episodes[e].rounds[k] : k \in 1..Len(all_episodes[e].rounds)} :
              e \in 1..Len(all_episodes)}
    \cup {round_details[k] : k \in 1..Len(round_details)}

\* C18: payoff resolution is total and consistent: the payoffs of a round
\* are the configured matrix entry of the ordered pair (action_0, action_1),
\* first component to agent 0 and second to agent 1, also when the matrix
\* is asymmetric, and no pair of returned actions is without an entry.
C18_PayoffResolution ==
    /\ pc # "aborted"
    /\ pc = "resolve" =>
          <<action[0], action[1]>> \in DOMAIN config.payoff_matrix
    /\ \A rd \in AllRoundRecords :
          /\ <<rd.agent_0_action, rd.agent_1_action>> \in Actions \X Actions
          /\ <<rd.agent_0_payoff, rd.agent_1_payoff>> =
                config.payoff_matrix[<<rd.agent_0_action, rd.agent_1_action>>]

C18_Witness ==
    /\ config.payoff_matrix = AsymmetricMatrix
    /\ \E rd \in AllRoundRecords :
          /\ rd.agent_0_action = "DEFECT" /\ rd.agent_1_action = "COOPERATE"
          /\ rd.agent_0_payoff = 4 /\ rd.agent_1_payoff = 1
    /\ \E rd \in AllRoundRecords :
          /\ rd.agent_0_action = "COOPERATE" /\ rd.agent_1_action = "DEFECT"
          /\ rd.agent_0_payoff = 0 /\ rd.agent_1_payoff = 5
    /\ \E rd \in AllRoundRecords :
          /\ rd.agent_0_action = "DEFECT" /\ rd.agent_1_action = "DEFECT"
          /\ rd.agent_0_payoff = 1 /\ rd.agent_1_payoff = 2

\* C20: an episode goes INIT, its rounds, STATISTICS, REFLECTION,
\* CONTEXT-TRANSITION, DONE: exactly rounds_per_episode rounds are played,
\* the reflections are requested only after the last round, and no context
\* is reset and no reflection injected before both reflections of the
\* episode have been obtained.
C20_EpisodeStateMachine ==
    /\ pc \in {"decide", "resolve"} =>
          /\ Len(round_details) < config.rounds_per_episode
          /\ \A i \in Agents : ReflectionsOf(episode_num, i) = {}
    /\ pc \in {"reflect", "context"} =>
          Len(round_details) = config.rounds_per_episode
    /\ \A e \in 1..Len(all_episodes) :
          /\ Len(all_episodes[e].rounds) = config.rounds_per_episode
          /\ \A k \in 1..Len(all_episodes[e].rounds) :
                all_episodes[e].rounds[k].round = k
    /\ \A k \in 1..Len(events) :
          /\ events[k].rounds = config.rounds_per_episode
          /\ events[k].kind \in {"reset", "append"} =>
                \A i \in Agents :
                    \E j \in ReflectionsOf(events[k].episode, i) : j < k
          /\ events[k].kind = "append" =>
                \E j \in 1..(k - 1) :
                    /\ events[j].kind = "reset"
                    /\ events[j].episode = events[k].episode
                    /\ events[j].agent = events[k].agent

C20_Witness ==
    /\ Len(all_episodes) = NumEpisodes
    /\ \E k \in 1..Len(events) :
          events[k].kind = "append" /\ events[k].episode = NumEpisodes - 1
    /\ \E k \in 1..Len(events) :
          events[k].kind = "reflection" /\ events[k].text = EmptyText

\* the load_json calls whose file was in the results table when they began
DuplicateLoads ==
    {k \in 1..Len(db_history) :
        UniqueViolation(db_history[k].file, db_history[k].before)}

\* C19: loading a result document that is already loaded is a skip that
\* changes nothing: load_json returns its skip value and does not raise,
\* the transaction is rolled back, and the results, llm_agents, episodes and
\* rounds tables hold the same rows as before the call.
C19_DuplicateIsSkipped ==
    \A k \in DuplicateLoads :
        /\ db_history[k].returned = Skipped
        /\ db_history[k].txn = NoTransaction
        /\ db_history[k].after = db_history[k].before
        /\ Cardinality({row \in db_history[k].after.results :
                           row.filename = db_history[k].file}) = 1

C19_Witness ==
    \E k \in DuplicateLoads :
        /\ db_history[k].file = "b.json"
        /\ db_history[k].returned = Skipped
        /\ Cardinality(db_history[k].after.rounds) > 0
        /\ db_pc = "idle"

\* C21: play_game drives exactly num_episodes episodes one after the other:
\* the GameResult it returns holds num_episodes EpisodeRecords numbered
\* 1..num_episodes in this order, each with rounds_per_episode RoundRecords
\* numbered 1..rounds_per_episode in this order.
C21_EpisodesInOrder ==
    /\ Len(all_episodes) <= config.num_episodes
    /\ pc \in {"decide", "resolve", "reflect", "context"} =>
          Len(all_episodes) = episode_num
    /\ \A e \in 1..Len(all_episodes) : all_episodes[e].episode = e
    /\ results.returned =>
          /\ Len(results.episodes) = config.num_episodes
          /\ \A e \in 1..Len(results.episodes) :
                LET ep == results.episodes[e]
                IN  /\ ep.episode = e
                    /\ Len(ep.rounds) = config.rounds_per_episode
                    /\ \A k \in 1..Len(ep.rounds) : ep.rounds[k].round = k

C21_Witness ==
    /\ results.returned
    /\ Len(results.episodes) = NumEpisodes
    /\ results.episodes[NumEpisodes].episode = NumEpisodes
    /\ results.episodes[NumEpisodes].rounds[RoundsPerEpisode].round = RoundsPerEpisode

\* the RoundRecords written so far, over all episodes
RecordsWritten ==
    SeqSum([e \in 1..Len(all_episodes) |-> Len(all_episodes[e].rounds)])
    + (IF pc \in {"decide", "resolve", "reflect", "context", "aborted"}
       THEN Len(round_details) ELSE 0)

\* C22: the rounds run strictly one after the other: in a round the
\* decision of agent 0, with all its retries, has returned before agent 1
\* is asked, the payoffs are resolved only when both decisions exist, the
\* prompt of the next round is rendered only after the scores and both
\* histories have the round, and only one request ladder is open at a time.
C22_StrictlySequential ==
    /\ \A k \in 1..Len(calls) :
          /\ calls[k].agent = (k - 1) % 2
          /\ calls[k].round = ((k - 1) \div 2) % config.rounds_per_episode
          /\ calls[k].episode = (k - 1) \div (2 * config.rounds_per_episode)
    /\ pc = "resolve" =>
          /\ action[0] \in Actions /\ action[1] \in Actions
          /\ Len(calls) = 2 * (RecordsWritten + 1)
    /\ pc = "decide" =>
          /\ Len(calls) = 2 * RecordsWritten + turn
          /\ action[1] = None
          /\ turn = 1 => action[0] \in Actions
          /\ turn = 0 => (action[0] = None /\ ~prompt[1].rendered)
    /\ pc \notin {"decide", "resolve", "aborted"} => Len(calls) = 2 * RecordsWritten
    /\ requests > 0 =>
          /\ pc = "decide"
          /\ prompt[turn].rendered
          /\ action[turn] = None
    /\ \A i \in Agents :
          prompt[i].rendered =>
              /\ prompt[i].round = Len(round_details)
              /\ Len(episode_history[0]) = prompt[i].round
              /\ Len(episode_history[1]) = prompt[i].round
              /\ episode_scores[i] = ScoreFromRecords(round_details, i)

C22_Witness ==
    /\ pc = "decide" /\ turn = 1
    /\ action[0] \in Actions /\ action[1] = None
    /\ round_num > 0
    /\ episode_num > 0
    /\ \E k \in 1..Len(calls) :
          /\ calls[k].agent = 0 /\ calls[k].requests > 1
          /\ calls[k].episode = episode_num /\ calls[k].round = round_num

\* a step resets the context of agent i or changes its standing material
ContextOperationOn(i) ==
    \/ conversation'[i].standing # conversation[i].standing
    \/ conversation'[i].system_prompt # conversation[i].system_prompt
    \/ conversation'[i].turns < conversation[i].turns

\* C23: reset and append_context are invoked by the episode engine at its
\* context-transition step only: no step of play_round, its retries and its
\* fallback included, resets a context or appends standing material to it.
C23_ContextOnlyAtTransition ==
    [][/\ (\E i \in Agents : ContextOperationOn(i)) => pc = "context"
       /\ events' # events =>
             \/ pc = "context"
             \/ /\ pc = "reflect"
                /\ events'[Len(events')].kind = "reflection"
       /\ pc \in {"decide", "resolve"} =>
             \A i \in Agents :
                 /\ conversation'[i].standing = conversation[i].standing
                 /\ conversation'[i].turns >= conversation[i].turns]_vars

C23_Witness ==
    /\ \E k \in 1..Len(events) : events[k].kind = "reset"
    /\ \E k \in 1..Len(events) : events[k].kind = "append"
    /\ diagnostics # << >>
    /\ pc = "resolve"
    /\ conversation[0].standing # << >>
    /\ conversation[0].turns > 0

\* the context operations of one kind on agent i at the end of episode e
ContextEventsOf(kind, e, i) ==
    {k \in 1..Len(events) :
        /\ events[k].kind = kind
        /\ events[k].episode = e
        /\ events[k].agent = i}

\* the block an agent gets back for the episode of the EpisodeRecord ep
OwnReflectionBlock(ep, i) ==
    ReflectionContext(ep.episode - 1, AgentOf(ep, i).reflection)

\* C24: with reset enabled, at the end of every episode the context of each
\* agent is reset, keeping the system prompt, and then gets exactly one
\* appended block, the agent's own reflection on the episode just ended and
\* never the opponent's; appended after the reset, it is the standing
\* material of the next episode.
C24_ResetAndReinject ==
    reset_conversation_between_episodes =>
        \A i \in Agents :
            /\ \A e \in 1..Len(all_episodes) :
                  /\ Cardinality(ContextEventsOf("reset", e - 1, i)) = 1
                  /\ Cardinality(ContextEventsOf("append", e - 1, i)) = 1
                  /\ \A r \in ContextEventsOf("reset", e - 1, i) :
                        \A a \in ContextEventsOf("append", e - 1, i) :
                            /\ r < a
                            /\ events[a].text = OwnReflectionBlock(all_episodes[e], i)
            /\ conversation[i].system_prompt
            /\ conversation[i].standing =
                  IF Len(all_episodes) = 0 THEN << >>
                  ELSE <<OwnReflectionBlock(all_episodes[Len(all_episodes)], i)>>

C24_Witness ==
    /\ reset_conversation_between_episodes
    /\ Len(all_episodes) = 1
    /\ pc = "resolve" /\ round_num > 0
    /\ all_episodes[1].agent_0.reflection # all_episodes[1].agent_1.reflection
    /\ conversation[1].standing =
          <<ReflectionContext(0, all_episodes[1].agent_1.reflection)>>
    /\ conversation[1].turns > 0

\* C25: with reset-between-episodes disabled the context-transition step
\* leaves both contexts as they are: neither reset nor append_context is
\* invoked on either agent at any episode boundary.
C25_CarryForward ==
    [][(~reset_conversation_between_episodes /\ pc = "context") =>
          /\ conversation' = conversation
          /\ events' = events
          /\ \A i \in Agents :
                /\ ContextEventsOf("reset", episode_num, i) = {}
                /\ ContextEventsOf("append", episode_num, i) = {}
                /\ conversation'[i].standing = << >>]_vars

C25_Witness ==
    /\ ~reset_conversation_between_episodes
    /\ pc = "episode"
    /\ Len(all_episodes) = 1
    /\ all_episodes[1].agent_1.reflection = FailedReflection
    /\ conversation[0].standing = << >>
    /\ conversation[0].turns = RoundsPerEpisode

\* the rows a table holds under the results identifier id
RowsOf(table, id) == {row \in table : row.results_id = id}

\* the rounds rows that hang on the episodes row er
RoundsOfRow(tables, er) ==
    {row \in tables.rounds : row.episode_id = er.episode_id}

\* C26: loading a document with A agents, E episodes and R rounds per
\* episode inserts under one generated results identifier one results row,
\* A agent rows, A*E episode rows and A*E*R round rows, and each round row
\* carries the action, the payoff, the cumulative score and the reasoning of
\* the agent of the episode row it hangs on.
C26_RowsOfALoad ==
    \A k \in 1..Len(db_history) :
        db_history[k].returned.kind = "loaded" =>
            LET call   == db_history[k]
                id     == call.returned.results_id
                shape  == Document(call.file)
                tables == call.after
            IN  /\ RowsOf(call.before.results, id) = {}
                /\ Cardinality(RowsOf(tables.results, id)) = 1
                /\ \A row \in RowsOf(tables.results, id) : row.filename = call.file
                /\ Cardinality(RowsOf(tables.llm_agents, id)) = shape.agents
                /\ Cardinality(RowsOf(tables.episodes, id)) =
                      shape.agents * shape.episodes
                /\ Cardinality(UNION {RoundsOfRow(tables, er) :
                                         er \in RowsOf(tables.episodes, id)}) =
                      shape.agents * shape.episodes * shape.rounds
                /\ \A a \in 0..(shape.agents - 1) : \A e \in 1..shape.episodes :
                      Cardinality({er \in RowsOf(tables.episodes, id) :
                                      er.agent_idx = a /\ er.episode = e}) = 1
                /\ \A er \in RowsOf(tables.episodes, id) :
                      /\ \A other \in tables.episodes :
                            other.episode_id = er.episode_id => other = er
                      /\ Cardinality(RoundsOfRow(tables, er)) = shape.rounds
                      /\ \A r \in 1..shape.rounds :
                            \E row \in RoundsOfRow(tables, er) :
                                /\ row.round = r
                                /\ row.action = DocAction(er.episode, r, er.agent_idx)
                                /\ row.payoff = DocPayoff(er.episode, r, er.agent_idx)
                                /\ row.ep_cumulative_score =
                                      DocScore(er.episode, r, er.agent_idx)
                                /\ row.reasoning =
                                      DocReasoning(er.episode, r, er.agent_idx)

C26_Witness ==
    \E k \in 1..Len(db_history) :
        /\ db_history[k].file = "b.json"
        /\ db_history[k].returned.kind = "loaded"
        /\ db_history[k].before.results # {}
        /\ Cardinality(RowsOf(db_history[k].after.episodes,
                               db_history[k].returned.results_id)) = 6
        /\ Cardinality(db_history[k].after.rounds) = 10

EpisodeScoreOf(rd, i) ==
    IF i = 0 THEN rd.agent_0_episode_score ELSE rd.agent_1_episode_score

\* the RoundRecord sequences written so far, one per episode
RoundSequences ==
    {all_episodes[e].rounds : e \in 1..Len(all_episodes)} \cup {round_details}

\* C27: in every RoundRecord the episode score of each agent is the sum of
\* that agent's payoffs over the rounds of the same episode up to and
\* including the round: a running sum that starts again in each episode.
C27_RunningEpisodeScore ==
    \A rounds \in RoundSequences :
        \A k \in 1..Len(rounds) :
            \A i \in Agents :
                EpisodeScoreOf(rounds[k], i) =
                    SeqSum([j \in 1..k |-> PayoffOf(rounds[j], i)])

C27_Witness ==
    /\ Len(all_episodes) = 1
    /\ all_episodes[1].rounds[RoundsPerEpisode].agent_1_episode_score > 0
    /\ Len(round_details) = 2
    /\ pc = "decide"
    /\ round_details[2].agent_0_episode_score > round_details[1].agent_0_episode_score
    /\ round_details[2].agent_0_episode_score
          < all_episodes[1].rounds[RoundsPerEpisode].agent_0_episode_score

\* C28: the state of an episode starts anew in every episode, with or
\* without reset of the contexts: at its first round both histories are
\* empty and both episode scores zero, and the decision prompt of round r
\* shows the agent's own score first and the opponent's second, both summed
\* over the rounds before r of the current episode, never the game totals.
C28_EpisodeLocalState ==
    /\ (pc \in {"decide", "resolve"} /\ round_num = 0) =>
          \A i \in Agents :
              /\ episode_history[i] = << >>
              /\ episode_scores[i] = 0
              /\ prompt[i].rendered =>
                    /\ prompt[i].shown = << >>
                    /\ prompt[i].my_score = 0 /\ prompt[i].opp_score = 0
    /\ \A i \in Agents :
          prompt[i].rendered =>
              /\ prompt[i].episode = episode_num
              /\ prompt[i].my_score = ScoreFromRecords(round_details, i)
              /\ prompt[i].opp_score = ScoreFromRecords(round_details, Other(i))

C28_Witness ==
    /\ ~reset_conversation_between_episodes
    /\ episode_num > 0
    /\ round_num > 0
    /\ prompt[1].rendered
    /\ prompt[1].my_score # prompt[1].opp_score
    /\ prompt[1].my_score # total_scores[1]
    /\ prompt[1].opp_score # total_scores[0]
    /\ prompt[1].my_score > 0

\* an AgentHistoryEntry seen from the other side
Mirror(entry) ==
    [my_action  |-> entry.opp_action, opp_action |-> entry.my_action,
     my_payoff  |-> entry.opp_payoff, opp_payoff |-> entry.my_payoff]

\* C29: the two agents stay aligned: after every round, a forced-fallback
\* round included, both histories are as long as the number of rounds
\* played in the episode, the k-th entry of agent 1 is the mirror of the
\* k-th entry of agent 0, and both agree with the k-th RoundRecord.
C29_EpisodeAlignment ==
    /\ Len(episode_history[0]) = Len(round_details)
    /\ Len(episode_history[1]) = Len(round_details)
    /\ pc \in {"decide", "resolve", "reflect", "context"} =>
          Len(round_details) = round_num
    /\ \A k \in 1..Len(round_details) :
          /\ episode_history[1][k] = Mirror(episode_history[0][k])
          /\ \A i \in Agents :
                /\ episode_history[i][k].my_action = ActionOf(round_details[k], i)
                /\ episode_history[i][k].opp_action =
                      ActionOf(round_details[k], Other(i))
                /\ episode_history[i][k].my_payoff = PayoffOf(round_details[k], i)
                /\ episode_history[i][k].opp_payoff =
                      PayoffOf(round_details[k], Other(i))

C29_Witness ==
    /\ pc = "decide" /\ turn = 0
    /\ Len(round_details) > 1
    /\ \E k \in 1..Len(diagnostics) :
          /\ diagnostics[k].episode = episode_num
          /\ diagnostics[k].round < round_num
          /\ diagnostics[k].agent = 1
    /\ \E k \in 1..Len(round_details) :
          episode_history[0][k].my_action # episode_history[0][k].opp_action

\* C30: for each agent of the GameResult, total_cooperations is the sum of
\* the agent's cooperations over the episodes, overall_cooperation_rate is
\* total_cooperations / total_rounds with total_rounds = num_episodes *
\* rounds_per_episode, and the rate is in [0, 1].
C30_GameCooperationStatistics ==
    results.returned =>
        \A i \in Agents :
            LET summary == AgentOf(results, i)
                rate    == summary.overall_cooperation_rate
                total   == config.num_episodes * config.rounds_per_episode
            IN  /\ summary.total_cooperations =
                      SeqSum([e \in 1..Len(results.episodes) |->
                                 AgentOf(results.episodes[e], i).cooperations])
                /\ summary.total_cooperations =
                      Cardinality({<<e, k>> \in (1..Len(results.episodes))
                                                 \X (1..config.rounds_per_episode) :
                          ActionOf(results.episodes[e].rounds[k], i) = "COOPERATE"})
                /\ rate.num = summary.total_cooperations
                /\ rate.den = total
                /\ total > 0
                /\ 0 <= rate.num /\ rate.num <= rate.den

C30_Witness ==
    /\ results.returned
    /\ results.agent_0.total_cooperations > results.agent_1.total_cooperations
    /\ results.agent_1.total_cooperations > 0
    /\ results.agent_0.total_cooperations < TotalRounds
    /\ results.episodes[1].agent_0.cooperations
          # results.episodes[NumEpisodes].agent_0.cooperations

\* the EpisodeRecords the play_game call that has just returned appended
EpisodesOfLastCall ==
    SubSeq(all_episodes, Len(all_episodes) - config.num_episodes + 1,
           Len(all_episodes))

\* the payoffs of agent i in the rounds of a sequence of EpisodeRecords
PayoffSum(episodes, i) ==
    SeqSum([e \in 1..Len(episodes) |->
               SeqSum([k \in 1..Len(episodes[e].rounds) |->
                          PayoffOf(episodes[e].rounds[k], i)])])

\* C31: every play_game call on an engine, a second call on an engine that
\* has completed a game included, returns a GameResult with exactly
\* num_episodes EpisodeRecords, for each agent a total_score that is the sum
\* of the agent's payoffs in the rounds of that call, and an
\* overall_cooperation_rate in [0, 1].
C31_Reentrant ==
    pc = "done" =>
        /\ Len(results.episodes) = config.num_episodes
        /\ \A i \in Agents :
              LET summary == AgentOf(results, i)
                  rate    == summary.overall_cooperation_rate
              IN  /\ summary.total_score = PayoffSum(EpisodesOfLastCall, i)
                  /\ 0 <= rate.num /\ rate.num <= rate.den

\* the rows of tables that hang on the results row with identifier id
RowsUnder(tables, id) ==
    [results    |-> RowsOf(tables.results, id),
     llm_agents |-> RowsOf(tables.llm_agents, id),
     episodes   |-> RowsOf(tables.episodes, id),
     rounds     |-> UNION {RoundsOfRow(tables, er) :
                              er \in RowsOf(tables.episodes, id)}]

\* every results row of tables has the child rows of its document, and
\* every child row hangs on a results row
WholeDocuments(tables) ==
    /\ \A row \in tables.results :
          LET shape == Document(row.filename)
              rows  == RowsUnder(tables, row.results_id)
          IN  /\ Cardinality(rows.llm_agents) = shape.agents
              /\ Cardinality(rows.episodes) = shape.agents * shape.episodes
              /\ Cardinality(rows.rounds) =
                    shape.agents * shape.episodes * shape.rounds
    /\ \A row \in tables.llm_agents \cup tables.episodes :
          RowsOf(tables.results, row.results_id) # {}
    /\ \A row \in tables.rounds :
          \E er \in tables.episodes : er.episode_id = row.episode_id

\* C32: load_json is all-or-nothing: nothing of a document is committed
\* before all its inserts succeeded, a load that returns its identifier has
\* added the results row and all its child rows and nothing else, a load that
\* fails (duplicate, missing key) is rolled back and leaves the tables as
\* they were with no row of the document pending, and the tables never hold
\* a results row without its children or a child row without its results
\* row.
C32_AllOrNothing ==
    /\ db_pc \in {"agents", "episodes", "commit"} =>
          /\ db_tables = db_before
          /\ RowsUnder(db_tables, db_results_id) = EmptyTables
    /\ db_pc = "idle" => db_txn = NoTransaction
    /\ WholeDocuments(db_tables)
    /\ \A k \in 1..Len(db_history) :
          LET call == db_history[k]
          IN  /\ call.txn = NoTransaction
              /\ WholeDocuments(call.after)
              /\ IF call.returned.kind = "loaded"
                 THEN LET rows == RowsUnder(call.after, call.returned.results_id)
                      IN  /\ Cardinality(rows.results) = 1
                          /\ \A t \in DOMAIN call.after :
                                /\ call.before[t] \subseteq call.after[t]
                                /\ call.after[t] \ call.before[t] = rows[t]
                                /\ rows[t] # {}
                 ELSE /\ call.after = call.before
                      /\ call.returned.kind = "raised" =>
                            \A row \in call.after.results :
                                row.filename # call.file

C32_Witness ==
    /\ db_pc = "idle"
    /\ \E k \in 1..Len(db_history) :
          /\ db_history[k].file = "c.json"
          /\ db_history[k].returned = Raised
          /\ db_history[k].before.results # {}
          /\ \E j \in (k + 1)..Len(db_history) :
                db_history[j].returned.kind = "loaded"
    /\ \E k \in 1..Len(db_history) :
          /\ db_history[k].file = "a2.json"
          /\ db_history[k].returned = Raised

\* the load_json calls of the load_batch call, in the order they were made
BatchCalls ==
    SubSeq(db_history, batch_base + 1,
           Min(Len(db_history), batch_base + Len(filepaths)))

Occurrences(paths, f) == Cardinality({k \in 1..Len(paths) : paths[k] = f})

FilesOfKind(made, kind) ==
    LET OfKind(call) == call.returned.kind = kind
        chosen == SelectSeq(made, OfKind)
    IN  [k \in 1..Len(chosen) |-> chosen[k].file]

\* a document all keys of which are there
SoundDocument(f) ==
    Document(f).broken_agent = 0 /\ Document(f).broken_episode = 0

\* C33: load_batch calls load_json once for every file of the list it was
\* given, in sorted path order, and puts the file into exactly one of
\* loaded, skipped (duplicate) and failed according to the outcome of that
\* call; a failure or a duplicate does not end the batch: a later file that
\* is sound and not yet in the table is loaded; and the three lists together
\* are as long as the list of files.
C33_BatchClassifiesEveryFile ==
    /\ batch_pc = "loop" =>
          Len(batch_results.loaded) + Len(batch_results.skipped)
            + Len(batch_results.failed) + Len(batch_queue) = Len(filepaths)
    /\ batch_pc = "done" =>
          LET made == BatchCalls
          IN  /\ Len(made) = Len(filepaths)
              /\ \A f \in ResultFiles :
                    Occurrences([k \in 1..Len(made) |-> made[k].file], f)
                        = Occurrences(filepaths, f)
              /\ \A j \in 1..Len(made) : \A k \in j..Len(made) :
                    Rank(made[j].file) <= Rank(made[k].file)
              /\ [k \in 1..Len(batch_results.loaded) |-> batch_results.loaded[k][1]]
                    = FilesOfKind(made, "loaded")
              /\ batch_results.skipped = FilesOfKind(made, "skipped")
              /\ [k \in 1..Len(batch_results.failed) |-> batch_results.failed[k][1]]
                    = FilesOfKind(made, "raised")
              /\ \A k \in 1..Len(made) :
                    (SoundDocument(made[k].file)
                       /\ ~UniqueViolation(made[k].file, made[k].before))
                    => /\ made[k].returned.kind = "loaded"
                       /\ \E j \in 1..Len(batch_results.loaded) :
                             batch_results.loaded[j]
                                 = <<made[k].file, made[k].returned.results_id,
                                     made[k].returned.researcher>>
              /\ Len(batch_results.loaded) + Len(batch_results.skipped)
                    + Len(batch_results.failed) = Len(filepaths)

C33_Witness ==
    /\ batch_pc = "done"
    /\ Len(filepaths) = 4
    /\ filepaths[1] = "b.json"
    /\ Len(batch_results.loaded) = 2
    /\ Len(batch_results.skipped) = 1
    /\ Len(batch_results.failed) = 1
    /\ \E j \in 1..Len(BatchCalls) : \E k \in (j + 1)..Len(BatchCalls) :
          /\ BatchCalls[j].returned.kind = "raised"
          /\ BatchCalls[k].returned.kind = "loaded"

====
